---------------------------- MODULE Spec2Model ----------------------------
(***************************************************************************)
(* A model of the UEFORMAT decoder of io_scene_ueformat/importer/classes.py *)
(* (UEModel, UEModelLOD, UEModelSkeleton, UEAnim, UEWorld and the element   *)
(* records they read).                                                      *)
(*                                                                          *)
(* A buffer is a sequence of bytes (0..255).  A reader is a record          *)
(* [data |-> bytes, pos |-> offset].  The result of a read is a record      *)
(* [ok, v, pos]: ok = FALSE stands for the exception the read raises, and    *)
(* then v and pos carry no meaning.                                         *)
(*                                                                          *)
(* A 32-bit float is modelled by the signed integer its four bytes spell:   *)
(* the decoder only copies floats and multiplies them by the scale, and     *)
(* both are kept exact.  A string is the sequence of its code units.        *)
(* An absent skeleton (None) is the empty sequence, a present one the       *)
(* one-element sequence holding it.                                         *)
(***************************************************************************)
EXTENDS Integers, Sequences, FiniteSets, TLC

(***************************************************************************)
(* Bounds of the exploration.                                               *)
(***************************************************************************)
\* sections in the scanned window of a container
MaxSecs == 2
\* elements in a section's payload
MaxItems == 2
\* keys in one key list of a Track
MaxKeys == 2
\* the caller's scale of the first decode is in 1..MaxScale
MaxScale == 2

Max(a, b) == IF a > b THEN a ELSE b

(***************************************************************************)
(* Section names, as code units.                                            *)
(***************************************************************************)
sLODS == <<76, 79, 68, 83>>
sSKELETON == <<83, 75, 69, 76, 69, 84, 79, 78>>
sCOLLISION == <<67, 79, 76, 76, 73, 83, 73, 79, 78>>
sVERTICES == <<86, 69, 82, 84, 73, 67, 69, 83>>
sINDICES == <<73, 78, 68, 73, 67, 69, 83>>
sNORMALS == <<78, 79, 82, 77, 65, 76, 83>>
sTANGENTS == <<84, 65, 78, 71, 69, 78, 84, 83>>
sVERTEXCOLORS == <<86, 69, 82, 84, 69, 88, 67, 79, 76, 79, 82, 83>>
sTEXCOORDS == <<84, 69, 88, 67, 79, 79, 82, 68, 83>>
sMATERIALS == <<77, 65, 84, 69, 82, 73, 65, 76, 83>>
sWEIGHTS == <<87, 69, 73, 71, 72, 84, 83>>
sMORPHTARGETS == <<77, 79, 82, 80, 72, 84, 65, 82, 71, 69, 84, 83>>
sBONES == <<66, 79, 78, 69, 83>>
sSOCKETS == <<83, 79, 67, 75, 69, 84, 83>>
sVIRTUALBONES == <<86, 73, 82, 84, 85, 65, 76, 66, 79, 78, 69, 83>>
sTRACKS == <<84, 82, 65, 67, 75, 83>>
sCURVES == <<67, 85, 82, 86, 69, 83>>
sMESHES == <<77, 69, 83, 72, 69, 83>>
sACTORS == <<65, 67, 84, 79, 82, 83>>
\* a name no container registers ("PHYSICS")
sUNKNOWN == <<80, 72, 89, 83, 73, 67, 83>>

(***************************************************************************)
(* The archive reader (importer/reader.py), by its contract.                *)
(***************************************************************************)
\* the signed little-endian (two's complement) value of the 4 bytes at offset p
LE32(d, p) ==
  d[p + 1] + 256 * d[p + 2] + 65536 * d[p + 3]
  + 16777216 * (IF d[p + 4] >= 128 THEN d[p + 4] - 256 ELSE d[p + 4])

\* n more bytes lie between offset p and the reader's bound
InBounds(d, p, n) == p >= 0 /\ p <= Len(d) /\ n >= 0 /\ n <= Len(d) - p

\* n * k for a count n read from the buffer; Python's integers are unbounded, and
\* a count beyond any buffer's length is kept beyond it
Times(n, k) == IF n <= 0 THEN 0 ELSE IF n > 16777216 THEN 16777216 ELSE n * k

\* v * scale is computed exactly on two limbs <<hi, lo>>, value hi * 65536 + lo,
\* 0 <= lo < 65536: a scaled quantity is held in this form
Big(v) == <<v \div 65536, v % 65536>>
BigMul(b, k) == <<b[1] * k + ((b[2] * k) \div 65536), (b[2] * k) % 65536>>

ReadInt(d, p) ==
  IF InBounds(d, p, 4)
  THEN [ok |-> TRUE, v |-> LE32(d, p), pos |-> p + 4]
  ELSE [ok |-> FALSE, v |-> 0, pos |-> p]

ReadFloat(d, p) == ReadInt(d, p)

ReadShort(d, p) ==
  IF InBounds(d, p, 2)
  THEN LET u == d[p + 1] + 256 * d[p + 2]
       IN [ok |-> TRUE, v |-> IF u >= 32768 THEN u - 65536 ELSE u, pos |-> p + 2]
  ELSE [ok |-> FALSE, v |-> 0, pos |-> p]

\* n consecutive primitives; kind is "int", "float" or "byte"
ReadVector(d, p, n, kind) ==
  LET w == IF kind = "byte" THEN 1 ELSE 4
      m == Max(n, 0)
  IN IF InBounds(d, p, Times(m, w))
     THEN [ok |-> TRUE,
           v |-> [i \in 1..m |-> IF kind = "byte" THEN d[p + i]
                                 ELSE ReadInt(d, p + (i - 1) * 4).v],
           pos |-> p + m * w]
     ELSE [ok |-> FALSE, v |-> <<>>, pos |-> p]

ReadFloatVector(d, p, n) == ReadVector(d, p, n, "float")
ReadIntVector(d, p, n) == ReadVector(d, p, n, "int")
ReadByteVector(d, p, n) == ReadVector(d, p, n, "byte")

\* signed length L, then a narrow (L > 0) or wide (L < 0) string ending in a NUL
\* that is dropped
ReadFString(d, p) ==
  LET l == ReadInt(d, p)
      wide == l.v < 0
      n == IF wide THEN 0 - l.v ELSE l.v
      w == IF wide THEN 2 ELSE 1
      q == l.pos
  IN IF l.ok /\ InBounds(d, q, Times(n, w))
     THEN [ok |-> TRUE,
           v |-> [i \in 1..(n - 1) |->
                    IF wide THEN d[q + 2 * i - 1] + 256 * d[q + 2 * i] ELSE d[q + i]],
           pos |-> q + n * w]
     ELSE [ok |-> FALSE, v |-> <<>>, pos |-> p]

\* chunk(size): a new reader over exactly the next `size` bytes; the parent's
\* offset moves past them
Chunk(d, p, size) ==
  IF InBounds(d, p, size)
  THEN [ok |-> TRUE, v |-> [data |-> SubSeq(d, p + 1, p + size), pos |-> 0], pos |-> p + size]
  ELSE [ok |-> FALSE, v |-> [data |-> <<>>, pos |-> 0], pos |-> p]

\* skip(size): moves the offset, reads nothing
Skip(p, size) == p + size

\* eof(): the offset has reached the reader's bound
Eof(ar) == ar.pos >= Len(ar.data)

\* group a flat sequence into rows of k
Rows(flat, k) == [i \in 1..(Len(flat) \div k) |-> [j \in 1..k |-> flat[(i - 1) * k + j]]]

(***************************************************************************)
(* The element records.  X_from_archive is the sequence of reads of         *)
(* X.from_archive, one entry per field of the record it builds, in the      *)
(* order in which the reads are made:                                       *)
(*   fstring, int, short, float   one primitive                             *)
(*   floats    n floats; mul: each multiplied by the multiplier passed in   *)
(*   bulk      read_bulk_array of `tag` records; arg: the multiplier they   *)
(*             are given, the caller's scale or the default 1.0             *)
(*   rows      a count c, then c * per primitives reshaped to               *)
(*             (c or c // 3, cols); mul as for floats; byte values are       *)
(*             divided by 255                                               *)
(*   chunk     ar.chunk(size), size the field `of` read before              *)
(***************************************************************************)
\* numpy's reshape(rows, cols) of an array of `size` elements succeeds: rows = -1 is
\* inferred, any other negative dimension is an error
ReshapeOk(size, rows, cols) ==
  IF rows = -1 THEN size % cols = 0
  ELSE rows >= 0 /\ rows <= size /\ rows * cols = size

\* [x * scale for x in vec]
Scaled(vec, scale) == [i \in 1..Len(vec) |-> BigMul(Big(vec[i]), scale)]

ConvexCollision_from_archive ==
  <<[f |-> "name", k |-> "fstring"],
    [f |-> "vertices", k |-> "rows", prim |-> "float", per |-> 3, cols |-> 3,
     third |-> FALSE, mul |-> TRUE],
    [f |-> "indices", k |-> "rows", prim |-> "int", per |-> 1, cols |-> 3,
     third |-> TRUE, mul |-> FALSE]>>

VertexColor_from_archive ==
  <<[f |-> "name", k |-> "fstring"],
    [f |-> "data", k |-> "rows", prim |-> "byte", per |-> 4, cols |-> 4,
     third |-> FALSE, mul |-> FALSE]>>

Material_from_archive ==
  <<[f |-> "material_name", k |-> "fstring"],
    [f |-> "first_index", k |-> "int"],
    [f |-> "num_faces", k |-> "int"]>>

Bone_from_archive ==
  <<[f |-> "name", k |-> "fstring"],
    [f |-> "parent_index", k |-> "int"],
    [f |-> "position", k |-> "floats", n |-> 3, mul |-> TRUE],
    [f |-> "rotation", k |-> "floats", n |-> 4, mul |-> FALSE]>>

Weight_from_archive ==
  <<[f |-> "bone_index", k |-> "short"],
    [f |-> "vertex_index", k |-> "int"],
    [f |-> "weight", k |-> "float"]>>

MorphTarget_from_archive ==
  <<[f |-> "name", k |-> "fstring"],
    [f |-> "deltas", k |-> "bulk", tag |-> "MorphTargetData", arg |-> "scale"]>>

MorphTargetData_from_archive ==
  <<[f |-> "position", k |-> "floats", n |-> 3, mul |-> TRUE],
    [f |-> "normals", k |-> "floats", n |-> 3, mul |-> FALSE],
    [f |-> "vertex_index", k |-> "int"]>>

Socket_from_archive ==
  <<[f |-> "name", k |-> "fstring"],
    [f |-> "parent_name", k |-> "fstring"],
    [f |-> "position", k |-> "floats", n |-> 3, mul |-> TRUE],
    [f |-> "rotation", k |-> "floats", n |-> 4, mul |-> FALSE],
    [f |-> "scale", k |-> "floats", n |-> 3, mul |-> FALSE]>>

VirtualBone_from_archive ==
  <<[f |-> "source_name", k |-> "fstring"],
    [f |-> "target_name", k |-> "fstring"],
    [f |-> "virtual_name", k |-> "fstring"]>>

Curve_from_archive ==
  <<[f |-> "name", k |-> "fstring"],
    [f |-> "keys", k |-> "bulk", tag |-> "FloatKey", arg |-> "default"]>>

\* Track with the scale keys given the caller's scale
Track_scale_keys_scaled ==
  <<[f |-> "name", k |-> "fstring"],
    [f |-> "position_keys", k |-> "bulk", tag |-> "VectorKey", arg |-> "scale"],
    [f |-> "rotation_keys", k |-> "bulk", tag |-> "QuatKey", arg |-> "default"],
    [f |-> "scale_keys", k |-> "bulk", tag |-> "VectorKey", arg |-> "scale"]>>

\* Track with the rotation keys read before the position keys
Track_rotation_first ==
  <<[f |-> "name", k |-> "fstring"],
    [f |-> "rotation_keys", k |-> "bulk", tag |-> "QuatKey", arg |-> "default"],
    [f |-> "position_keys", k |-> "bulk", tag |-> "VectorKey", arg |-> "scale"],
    [f |-> "scale_keys", k |-> "bulk", tag |-> "VectorKey", arg |-> "default"]>>

Track_from_archive ==
  <<[f |-> "name", k |-> "fstring"],
    [f |-> "position_keys", k |-> "bulk", tag |-> "VectorKey", arg |-> "scale"],
    [f |-> "rotation_keys", k |-> "bulk", tag |-> "QuatKey", arg |-> "default"],
    [f |-> "scale_keys", k |-> "bulk", tag |-> "VectorKey", arg |-> "default"]>>

\* value = [f * multiplier for f in ar.read_float_vector(3)]
VectorKey_from_archive ==
  <<[f |-> "frame", k |-> "int"],
    [f |-> "value", k |-> "floats", n |-> 3, mul |-> TRUE]>>

QuatKey_from_archive ==
  <<[f |-> "frame", k |-> "int"],
    [f |-> "value", k |-> "floats", n |-> 4, mul |-> FALSE]>>

FloatKey_from_archive ==
  <<[f |-> "frame", k |-> "int"],
    [f |-> "value", k |-> "float"]>>

\* HashedMesh with the chunk sized by the hash
HashedMesh_chunk_of_hash ==
  <<[f |-> "hash", k |-> "int"],
    [f |-> "model_size", k |-> "int"],
    [f |-> "model_reader", k |-> "chunk", of |-> "hash"]>>

HashedMesh_from_archive ==
  <<[f |-> "hash", k |-> "int"],
    [f |-> "model_size", k |-> "int"],
    [f |-> "model_reader", k |-> "chunk", of |-> "model_size"]>>

Actor_from_archive ==
  <<[f |-> "name", k |-> "fstring"],
    [f |-> "model_hash", k |-> "int"],
    [f |-> "location", k |-> "floats", n |-> 3, mul |-> TRUE],
    [f |-> "rotation", k |-> "floats", n |-> 4, mul |-> FALSE],
    [f |-> "scale", k |-> "floats", n |-> 3, mul |-> FALSE]>>

\* the element decoder a read_array call is given (its lambda)
FromArchive(tag) ==
  CASE tag = "ConvexCollision" -> ConvexCollision_from_archive
    [] tag = "VertexColor" -> VertexColor_from_archive
    [] tag = "Material" -> Material_from_archive
    [] tag = "Bone" -> Bone_from_archive
    [] tag = "Weight" -> Weight_from_archive
    [] tag = "MorphTargetData" -> MorphTargetData_from_archive
    [] tag = "MorphTarget" -> MorphTarget_from_archive
    [] tag = "Socket" -> Socket_from_archive
    [] tag = "VirtualBone" -> VirtualBone_from_archive
    [] tag = "VectorKey" -> VectorKey_from_archive
    [] tag = "QuatKey" -> QuatKey_from_archive
    [] tag = "FloatKey" -> FloatKey_from_archive
    [] tag = "Curve" -> Curve_from_archive
    [] tag = "Track" -> Track_from_archive
    [] tag = "HashedMesh" -> HashedMesh_from_archive
    [] tag = "Actor" -> Actor_from_archive

Failed(p) == [ok |-> FALSE, v |-> <<>>, pos |-> p]

\* the read r with its value replaced by v
WithValue(r, v) == [ok |-> r.ok, v |-> v, pos |-> r.pos]

\* a read vector as floats, multiplied or not
FloatsOf(r, mul, scale) == WithValue(r, IF mul THEN Scaled(r.v, scale) ELSE r.v)

\* the vector vec read after the count c, reshaped
RowsOf(sp, c, vec, scale) ==
  LET conv == IF sp.prim = "byte" THEN [i \in 1..Len(vec.v) |-> <<vec.v[i], 255>>]
              ELSE IF sp.mul THEN Scaled(vec.v, scale) ELSE vec.v
  IN [ok |-> vec.ok /\ ReshapeOk(Len(vec.v), IF sp.third THEN c \div 3 ELSE c, sp.cols),
      v |-> Rows(conv, sp.cols),
      pos |-> vec.pos]

RowsAfter(sp, c, d, scale) ==
  IF ~c.ok THEN Failed(c.pos)
  ELSE RowsOf(sp, c.v, ReadVector(d, c.pos, Times(c.v, sp.per), sp.prim), scale)

RECURSIVE ReadArray(_, _, _, _, _)

\* read_bulk_array: a 32-bit count c, then that many elements
BulkAfter(tag, c, d, scale) ==
  IF ~c.ok THEN Failed(c.pos) ELSE ReadArray(tag, d, c.pos, c.v, scale)

ReadBulkArray(tag, d, p, scale) == BulkAfter(tag, ReadInt(d, p), d, scale)

\* one read of a record; acc holds the fields read before it
ReadField(sp, d, p, scale, acc) ==
  CASE sp.k = "fstring" -> ReadFString(d, p)
    [] sp.k = "int" -> ReadInt(d, p)
    [] sp.k = "short" -> ReadShort(d, p)
    [] sp.k = "float" -> ReadFloat(d, p)
    [] sp.k = "floats" -> FloatsOf(ReadFloatVector(d, p, sp.n), sp.mul, scale)
    [] sp.k = "bulk" -> ReadBulkArray(sp.tag, d, p, IF sp.arg = "scale" THEN scale ELSE 1)
    [] sp.k = "rows" -> RowsAfter(sp, ReadInt(d, p), d, scale)
    [] sp.k = "chunk" -> Chunk(d, p, acc[sp.of])

\* the reads of a record from its i-th on
RECURSIVE ReadFields(_, _, _, _, _, _)
FieldRead(r, reads, d, scale, i, acc) ==
  IF ~r.ok THEN Failed(r.pos)
  ELSE ReadFields(reads, d, r.pos, scale, i + 1, acc @@ (reads[i].f :> r.v))

ReadFields(reads, d, p, scale, i, acc) ==
  IF i > Len(reads)
  THEN [ok |-> TRUE, v |-> acc, pos |-> p]
  ELSE FieldRead(ReadField(reads[i], d, p, scale, acc), reads, d, scale, i, acc)

\* read_array(count, decoder): the decoder count times, results in order; the
\* first failing element ends the read
Cons(e, rest) == [ok |-> rest.ok, v |-> <<e.v>> \o rest.v, pos |-> rest.pos]

ElementRead(e, tag, d, count, scale) ==
  IF ~e.ok THEN Failed(e.pos)
  ELSE Cons(e, ReadArray(tag, d, e.pos, count - 1, scale))

ReadArray(tag, d, p, count, scale) ==
  IF count <= 0
  THEN [ok |-> TRUE, v |-> <<>>, pos |-> p]
  ELSE ElementRead(ReadFields(FromArchive(tag), d, p, scale, 1, <<>>), tag, d, count, scale)

(***************************************************************************)
(* Test buffers.  The decoder has no encoder; the operators below write the *)
(* byte layout the decoder reads (little-endian, length-prefixed            *)
(* strings, [name][element_count][byte_length][payload] records) so that    *)
(* the decoder is run on buffers whose content is known.                    *)
(***************************************************************************)
RECURSIVE Concat(_)
Concat(ss) == IF ss = <<>> THEN <<>> ELSE Head(ss) \o Concat(Tail(ss))

\* two's complement, little-endian
EncInt(v) == <<v % 256, (v \div 256) % 256, (v \div 65536) % 256, (v \div 16777216) % 256>>

EncShort(v) == <<v % 256, (v \div 256) % 256>>

EncVec(vec) == Concat([i \in 1..Len(vec) |-> EncInt(vec[i])])

\* the bytes of a sequence of unscaled two-limb quantities
EncBigVec(vec) == Concat([i \in 1..Len(vec) |-> EncInt(vec[i][1] * 65536 + vec[i][2])])

\* narrow string: length + 1, the characters, a NUL
EncStr(str) == EncInt(Len(str) + 1) \o str \o <<0>>

\* wide string: -(length + 1), the 2-byte code units, a wide NUL
EncWStr(str) ==
  EncInt(0 - (Len(str) + 1)) \o Concat([i \in 1..Len(str) |-> <<str[i] % 256, str[i] \div 256>>])
  \o <<0, 0>>

Vec(n, b) == [j \in 1..n |-> b + j]
BigVec(n, b) == [j \in 1..n |-> Big(b + j)]

\* the bytes of a HashedMesh's model sub-archive: an unregistered section and an
\* empty LODS section
MeshBytes ==
  EncStr(sUNKNOWN) \o EncInt(0) \o EncInt(1) \o <<9>>
  \o EncStr(sLODS) \o EncInt(0) \o EncInt(0)

\* the i-th element of a section, as it decodes under scale 1; kc = <<p, r, s>>
\* are the key counts of a Track
RECURSIVE RawElem(_, _, _)
RawElem(tag, i, kc) ==
  CASE tag = "Bone" ->
         [name |-> <<66, 48 + i>>, parent_index |-> i - 2,
          position |-> BigVec(3, 10 * i), rotation |-> Vec(4, 10 * i + 3)]
    [] tag = "Socket" ->
         [name |-> <<83, 48 + i>>, parent_name |-> <<66, 49>>,
          position |-> BigVec(3, 10 * i), rotation |-> Vec(4, 10 * i + 3),
          scale |-> Vec(3, 50 + i)]
    [] tag = "VirtualBone" ->
         [source_name |-> <<66, 48 + i>>, target_name |-> <<66, 49 + i>>,
          virtual_name |-> <<86, 48 + i>>]
    [] tag = "Material" ->
         [material_name |-> <<77, 48 + i>>, first_index |-> 3 * (i - 1), num_faces |-> 1]
    [] tag = "Weight" ->
         [bone_index |-> i - 2, vertex_index |-> i, weight |-> 100 + i]
    [] tag = "MorphTargetData" ->
         [position |-> BigVec(3, 10 * i), normals |-> Vec(3, 10 * i + 3), vertex_index |-> i - 1]
    [] tag = "MorphTarget" ->
         [name |-> <<84, 48 + i>>,
          deltas |-> [j \in 1..i |-> RawElem("MorphTargetData", j, kc)]]
    [] tag = "VertexColor" ->
         [name |-> <<67, 48 + i>>,
          data |-> [j \in 1..i |-> [k \in 1..4 |-> <<60 * k + j, 255>>]]]
    [] tag = "ConvexCollision" ->
         [name |-> <<72, 48 + i>>,
          vertices |-> [j \in 1..i |-> BigVec(3, 10 * j)],
          indices |-> <<<<0, 1, 2>>>>]
    [] tag = "FloatKey" -> [frame |-> i, value |-> 70 + i]
    [] tag = "VectorKey" -> [frame |-> i, value |-> BigVec(3, 10 * i)]
    [] tag = "ScaleKey" -> [frame |-> i + 1, value |-> BigVec(3, 10 * i + 5)]
    [] tag = "QuatKey" -> [frame |-> 2 * i, value |-> Vec(4, 20 * i)]
    [] tag = "Curve" ->
         [name |-> <<75, 48 + i>>, keys |-> [j \in 1..i |-> RawElem("FloatKey", j, kc)]]
    [] tag = "Track" ->
         [name |-> <<66, 48 + i>>,
          position_keys |-> [j \in 1..kc[1] |-> RawElem("VectorKey", j + i, kc)],
          rotation_keys |-> [j \in 1..kc[2] |-> RawElem("QuatKey", j + i, kc)],
          scale_keys |-> [j \in 1..kc[3] |-> RawElem("ScaleKey", j + i, kc)]]
    [] tag = "HashedMesh" ->
         [hash |-> 6 + i, model_size |-> Len(MeshBytes),
          model_reader |-> [data |-> MeshBytes, pos |-> 0]]
    [] tag = "Actor" ->
         [name |-> <<65, 48 + i>>, model_hash |-> 7,
          location |-> BigVec(3, 10 * i), rotation |-> Vec(4, 10 * i + 3),
          scale |-> Vec(3, 1)]

\* the bytes of an element
RECURSIVE EncElem(_, _)
EncElem(tag, e) ==
  LET EncList(t, es) == EncInt(Len(es)) \o Concat([j \in 1..Len(es) |-> EncElem(t, es[j])])
  IN CASE tag = "Bone" ->
            EncStr(e.name) \o EncInt(e.parent_index) \o EncBigVec(e.position) \o EncVec(e.rotation)
       [] tag = "Socket" ->
            EncWStr(e.name) \o EncStr(e.parent_name) \o EncBigVec(e.position)
            \o EncVec(e.rotation) \o EncVec(e.scale)
       [] tag = "VirtualBone" ->
            EncStr(e.source_name) \o EncStr(e.target_name) \o EncStr(e.virtual_name)
       [] tag = "Material" ->
            EncStr(e.material_name) \o EncInt(e.first_index) \o EncInt(e.num_faces)
       [] tag = "Weight" ->
            EncShort(e.bone_index) \o EncInt(e.vertex_index) \o EncInt(e.weight)
       [] tag = "MorphTargetData" ->
            EncBigVec(e.position) \o EncVec(e.normals) \o EncInt(e.vertex_index)
       [] tag = "MorphTarget" -> EncStr(e.name) \o EncList("MorphTargetData", e.deltas)
       [] tag = "VertexColor" ->
            EncStr(e.name) \o EncInt(Len(e.data))
            \o Concat([j \in 1..Len(e.data) |-> [k \in 1..4 |-> e.data[j][k][1]]])
       [] tag = "ConvexCollision" ->
            EncStr(e.name) \o EncInt(Len(e.vertices))
            \o Concat([j \in 1..Len(e.vertices) |-> EncBigVec(e.vertices[j])])
            \o EncInt(3 * Len(e.indices))
            \o Concat([j \in 1..Len(e.indices) |-> EncVec(e.indices[j])])
       [] tag = "FloatKey" -> EncInt(e.frame) \o EncInt(e.value)
       [] tag \in {"VectorKey", "ScaleKey"} -> EncInt(e.frame) \o EncBigVec(e.value)
       [] tag = "QuatKey" -> EncInt(e.frame) \o EncVec(e.value)
       [] tag = "Curve" -> EncStr(e.name) \o EncList("FloatKey", e.keys)
       [] tag = "Track" ->
            EncStr(e.name) \o EncList("VectorKey", e.position_keys)
            \o EncList("QuatKey", e.rotation_keys) \o EncList("ScaleKey", e.scale_keys)
       [] tag = "HashedMesh" -> EncInt(e.hash) \o EncInt(e.model_size) \o e.model_reader.data
       [] tag = "Actor" ->
            EncStr(e.name) \o EncInt(e.model_hash) \o EncBigVec(e.location)
            \o EncVec(e.rotation) \o EncVec(e.scale)

\* an element with its position-like fields multiplied by k: Bone and Socket
\* positions, MorphTarget delta positions, collision-hull vertices, Track position
\* keys, Actor locations
ScaleElem(tag, e, k) ==
  LET Mul(vec) == [j \in 1..Len(vec) |-> BigMul(vec[j], k)]
  IN CASE tag \in {"Bone", "Socket"} -> [e EXCEPT !.position = Mul(e.position)]
       [] tag = "MorphTarget" ->
            [e EXCEPT !.deltas = [j \in 1..Len(e.deltas) |->
                                    [e.deltas[j] EXCEPT !.position = Mul(e.deltas[j].position)]]]
       [] tag = "ConvexCollision" ->
            [e EXCEPT !.vertices = [j \in 1..Len(e.vertices) |-> Mul(e.vertices[j])]]
       [] tag = "Track" ->
            [e EXCEPT !.position_keys = [j \in 1..Len(e.position_keys) |->
                [e.position_keys[j] EXCEPT !.value = Mul(e.position_keys[j].value)]]]
       [] tag = "Actor" -> [e EXCEPT !.location = Mul(e.location)]
       [] OTHER -> e

(***************************************************************************)
(* The section scanners.  X_dispatch(d, p, data, h, scale) is the branch of *)
(* X.from_archive's loop body taken for the header h read just before       *)
(* offset p: the result carries the offset the branch leaves, the updated   *)
(* result object and the number of Log.warn calls it made.                  *)
(***************************************************************************)
ModelNames == {sLODS, sSKELETON, sCOLLISION}
LODNames == {sVERTICES, sINDICES, sNORMALS, sTANGENTS, sVERTEXCOLORS, sTEXCOORDS,
             sMATERIALS, sWEIGHTS, sMORPHTARGETS}
SkeletonNames == {sBONES, sSOCKETS, sVIRTUALBONES}
AnimNames == {sTRACKS, sCURVES}
WorldNames == {sMESHES, sACTORS}

\* section_name / header_name, array_size, byte_size; pos is ar.data.tell() after
\* the header
Header(name, array_size, byte_size) ==
  [ok |-> name.ok /\ array_size.ok /\ byte_size.ok,
   v |-> [name |-> name.v, array_size |-> array_size.v, byte_size |-> byte_size.v,
          pos |-> byte_size.pos],
   pos |-> byte_size.pos]

HeaderSizes(name, array_size, d) == Header(name, array_size, ReadInt(d, array_size.pos))

HeaderAfter(name, d) == HeaderSizes(name, ReadInt(d, name.pos), d)

ReadHeader(d, p) == HeaderAfter(ReadFString(d, p), d)

NoHeader == [name |-> <<>>, array_size |-> 0, byte_size |-> 0, pos |-> -1]

NewModel == [lods |-> <<>>, collisions |-> <<>>, skeleton |-> <<>>]
NewLOD(name) ==
  [name |-> name, vertices |-> <<>>, indices |-> <<>>, normals |-> <<>>, tangents |-> <<>>,
   colors |-> <<>>, uvs |-> <<>>, materials |-> <<>>, morphs |-> <<>>, weights |-> <<>>]
NewSkeleton == [bones |-> <<>>, sockets |-> <<>>, virtual_bones |-> <<>>]
NewWorld == [meshes |-> <<>>, actors |-> <<>>]

\* what a branch of a scanner's loop leaves: the offset, the number of Log.warn
\* calls made, the result object
Branch(ok, pos, warn, data) == [ok |-> ok, pos |-> pos, warn |-> warn, data |-> data]

\* self.<field> = <the value read by a>
Assigned(a, data, field) == Branch(a.ok, a.pos, 0, [data EXCEPT ![field] = a.v])

\* reshape(-1, 4)[:, 1:] of the normals: the first column (w) is dropped
DropW(a) == WithValue(a, [i \in 1..Len(a.v) |-> Tail(a.v[i])])

\* the part of a UEModel branch that is about nested containers: the number of
\* UEModelLOD.from_archive calls it starts, whether it hands a chunk to
\* UEModelSkeleton.from_archive, and that chunk
Nested(r, lods, chunk, sub) ==
  [ok |-> r.ok, pos |-> r.pos, warn |-> r.warn, data |-> r.data,
   lods |-> lods, chunk |-> chunk, sub |-> sub]

\* the chunk c handed to UEModelSkeleton.from_archive
Handed(c, data) == Nested(Branch(c.ok, c.pos, 0, data), 0, TRUE, c.v)

UEModel_dispatch(d, p, data, h, scale) ==
  CASE h.name = sLODS ->
         Nested(Branch(TRUE, p, 0,
                       IF h.array_size <= 0 THEN [data EXCEPT !.lods = <<>>] ELSE data),
                Max(h.array_size, 0), FALSE, <<>>)
    [] h.name = sSKELETON ->
         Handed(Chunk(d, p, h.byte_size), data)
    [] h.name = sCOLLISION ->
         Nested(Assigned(ReadArray("ConvexCollision", d, p, h.array_size, scale),
                         data, "collisions"),
                0, FALSE, <<>>)
    [] OTHER ->
         Nested(Branch(TRUE, Skip(p, h.byte_size), 1, data), 0, FALSE, <<>>)

\* the TEXCOORDS loop: per channel a count, then count * 2 floats as count rows
RECURSIVE ReadUVs(_, _, _)
UVRead(uv, d, k) ==
  IF ~uv.ok THEN Failed(uv.pos) ELSE Cons(uv, ReadUVs(d, uv.pos, k - 1))

UVAfter(count, d) ==
  IF ~count.ok THEN Failed(count.pos)
  ELSE RowsOf([prim |-> "float", cols |-> 2, third |-> FALSE, mul |-> FALSE], count.v,
              ReadFloatVector(d, count.pos, Times(count.v, 2)), 1)

ReadUVs(d, p, k) ==
  IF k <= 0
  THEN [ok |-> TRUE, v |-> <<>>, pos |-> p]
  ELSE UVRead(UVAfter(ReadInt(d, p), d), d, k)

UEModelLOD_dispatch(d, p, data, h, scale) ==
  CASE h.name = sVERTICES ->
         Assigned(RowsOf([prim |-> "float", cols |-> 3, third |-> FALSE, mul |-> TRUE],
                         h.array_size,
                         ReadFloatVector(d, p, Times(h.array_size, 3)), scale),
                  data, "vertices")
    [] h.name = sINDICES ->
         Assigned(RowsOf([prim |-> "int", cols |-> 3, third |-> TRUE, mul |-> FALSE],
                         h.array_size,
                         ReadIntVector(d, p, h.array_size), scale),
                  data, "indices")
    [] h.name = sNORMALS ->
         Assigned(DropW(RowsOf([prim |-> "float", cols |-> 4, third |-> FALSE, mul |-> FALSE],
                               -1,
                               ReadFloatVector(d, p, Times(h.array_size, 4)), scale)),
                  data, "normals")
    [] h.name = sTANGENTS ->
         Branch(TRUE, Skip(p, Times(h.array_size, 9)), 0, data)
    [] h.name = sVERTEXCOLORS ->
         Assigned(ReadArray("VertexColor", d, p, h.array_size, scale), data, "colors")
    [] h.name = sTEXCOORDS ->
         Assigned(ReadUVs(d, p, h.array_size), data, "uvs")
    [] h.name = sMATERIALS ->
         Assigned(ReadArray("Material", d, p, h.array_size, scale), data, "materials")
    [] h.name = sWEIGHTS ->
         Assigned(ReadArray("Weight", d, p, h.array_size, scale), data, "weights")
    [] h.name = sMORPHTARGETS ->
         Assigned(ReadArray("MorphTarget", d, p, h.array_size, scale), data, "morphs")
    [] OTHER ->
         Branch(TRUE, Skip(p, h.byte_size), 1, data)

\* UEModelSkeleton's dispatch with the SOCKETS branch assigning data.bones
UEModelSkeleton_dispatch_misassigned(d, p, data, h, scale) ==
  CASE h.name = sBONES ->
         Assigned(ReadArray("Bone", d, p, h.array_size, scale), data, "bones")
    [] h.name = sSOCKETS ->
         Assigned(ReadArray("Socket", d, p, h.array_size, scale), data, "bones")
    [] h.name = sVIRTUALBONES ->
         Assigned(ReadArray("VirtualBone", d, p, h.array_size, scale), data, "virtual_bones")
    [] OTHER ->
         Branch(TRUE, Skip(p, h.byte_size), 1, data)

UEModelSkeleton_dispatch(d, p, data, h, scale) ==
  CASE h.name = sBONES ->
         Assigned(ReadArray("Bone", d, p, h.array_size, scale), data, "bones")
    [] h.name = sSOCKETS ->
         Assigned(ReadArray("Socket", d, p, h.array_size, scale), data, "sockets")
    [] h.name = sVIRTUALBONES ->
         Assigned(ReadArray("VirtualBone", d, p, h.array_size, scale), data, "virtual_bones")
    [] OTHER ->
         Branch(TRUE, Skip(p, h.byte_size), 1, data)

\* UEAnim's dispatch with an else branch that leaves the section's bytes unread
UEAnim_dispatch_unskipped(d, p, data, h, scale) ==
  CASE h.name = sTRACKS ->
         Assigned(ReadArray("Track", d, p, h.array_size, scale), data, "tracks")
    [] h.name = sCURVES ->
         Assigned(ReadArray("Curve", d, p, h.array_size, scale), data, "curves")
    [] OTHER ->
         Branch(TRUE, p, 0, data)

\* the else branch of UEAnim skips without a Log.warn
UEAnim_dispatch(d, p, data, h, scale) ==
  CASE h.name = sTRACKS ->
         Assigned(ReadArray("Track", d, p, h.array_size, scale), data, "tracks")
    [] h.name = sCURVES ->
         Assigned(ReadArray("Curve", d, p, h.array_size, scale), data, "curves")
    [] OTHER ->
         Branch(TRUE, Skip(p, h.byte_size), 0, data)

\* UEWorld's dispatch with an else branch that skips array_size bytes
UEWorld_dispatch_by_count(d, p, data, h, scale) ==
  CASE h.name = sMESHES ->
         Assigned(ReadArray("HashedMesh", d, p, h.array_size, scale), data, "meshes")
    [] h.name = sACTORS ->
         Assigned(ReadArray("Actor", d, p, h.array_size, scale), data, "actors")
    [] OTHER ->
         Branch(TRUE, Skip(p, h.array_size), 1, data)

UEWorld_dispatch(d, p, data, h, scale) ==
  CASE h.name = sMESHES ->
         Assigned(ReadArray("HashedMesh", d, p, h.array_size, scale), data, "meshes")
    [] h.name = sACTORS ->
         Assigned(ReadArray("Actor", d, p, h.array_size, scale), data, "actors")
    [] OTHER ->
         Branch(TRUE, Skip(p, h.byte_size), 1, data)

\* the same seek with whence = 1: the offset is taken from the current position
SeekRelative(h, p) ==
  [ok |-> p + h.pos + h.byte_size >= 0, pos |-> p + h.pos + h.byte_size]

\* ar.data.seek(pos + byte_size, 0) of UEModelLOD and UEModelSkeleton, made at
\* offset p: an absolute seek of the underlying stream (whence = 0, p plays no
\* part), which may pass the end of the stream and raises on a negative offset
SeekEnd(h, p) == [ok |-> h.pos + h.byte_size >= 0, pos |-> h.pos + h.byte_size]

(***************************************************************************)
(* The inputs.  A scenario names the container whose scanner is exercised   *)
(* (focus), a window of sections of it (start, len), the number c of        *)
(* elements each section holds, and at most one defect: the section `at`    *)
(* declares one element fewer or one more than its payload holds, or the    *)
(* last section declares a byte_length one past the reader's bound, or the  *)
(* section `at` of a LOD or Skeleton declares the negative byte_length that *)
(* is the length of its own header ("back").                                *)
(***************************************************************************)
Cycle(focus) ==
  CASE focus = "model" -> <<sLODS, sUNKNOWN, sSKELETON, sCOLLISION>>
    [] focus = "lod" -> <<sVERTICES, sINDICES, sNORMALS, sTANGENTS, sUNKNOWN, sVERTEXCOLORS,
                          sTEXCOORDS, sMATERIALS, sWEIGHTS, sMORPHTARGETS>>
    [] focus = "skel" -> <<sBONES, sSOCKETS, sUNKNOWN, sVIRTUALBONES>>
    [] focus = "anim" -> <<sTRACKS, sCURVES, sUNKNOWN>>
    [] focus = "world" -> <<sMESHES, sACTORS, sUNKNOWN>>

KindOf(focus) == IF focus \in {"model", "lod", "skel"} THEN "model" ELSE focus

Window(focus, start, len) ==
  [i \in 1..len |-> Cycle(focus)[((start + i - 2) % Len(Cycle(focus))) + 1]]

\* the element type of a section that is an array of records
TagOf(name) ==
  CASE name = sCOLLISION -> "ConvexCollision"
    [] name = sVERTEXCOLORS -> "VertexColor"
    [] name = sMATERIALS -> "Material"
    [] name = sWEIGHTS -> "Weight"
    [] name = sMORPHTARGETS -> "MorphTarget"
    [] name = sBONES -> "Bone"
    [] name = sSOCKETS -> "Socket"
    [] name = sVIRTUALBONES -> "VirtualBone"
    [] name = sTRACKS -> "Track"
    [] name = sCURVES -> "Curve"
    [] name = sMESHES -> "HashedMesh"
    [] name = sACTORS -> "Actor"
    [] OTHER -> "none"

\* the result field a section is bound to
FieldOf(name) ==
  CASE name = sLODS -> "lods"
    [] name = sSKELETON -> "skeleton"
    [] name = sCOLLISION -> "collisions"
    [] name = sVERTICES -> "vertices"
    [] name = sINDICES -> "indices"
    [] name = sNORMALS -> "normals"
    [] name = sVERTEXCOLORS -> "colors"
    [] name = sTEXCOORDS -> "uvs"
    [] name = sMATERIALS -> "materials"
    [] name = sWEIGHTS -> "weights"
    [] name = sMORPHTARGETS -> "morphs"
    [] name = sBONES -> "bones"
    [] name = sSOCKETS -> "sockets"
    [] name = sVIRTUALBONES -> "virtual_bones"
    [] name = sTRACKS -> "tracks"
    [] name = sCURVES -> "curves"
    [] name = sMESHES -> "meshes"
    [] name = sACTORS -> "actors"
    [] OTHER -> "none"

EncSec(sec) == EncStr(sec.name) \o EncInt(sec.n) \o EncInt(sec.B) \o sec.payload

\* the i-th LOD of a LODS section: 3 vertices, the triangle 0,1,2, one material
FixtureLOD(i) ==
  [NewLOD(<<76, 48 + i>>) EXCEPT
     !.vertices = [j \in 1..3 |-> BigVec(3, 10 * j + i)],
     !.indices = <<<<0, 1, 2>>>>,
     !.materials = <<RawElem("Material", 1, <<1, 1, 1>>)>>]

EncFixtureLOD(l) ==
  LET v == Concat([j \in 1..Len(l.vertices) |-> EncBigVec(l.vertices[j])])
      x == Concat([j \in 1..Len(l.indices) |-> EncVec(l.indices[j])])
      m == Concat([j \in 1..Len(l.materials) |-> EncElem("Material", l.materials[j])])
      body == EncSec([name |-> sVERTICES, n |-> Len(l.vertices), B |-> Len(v), payload |-> v])
              \o EncSec([name |-> sINDICES, n |-> 3 * Len(l.indices), B |-> Len(x), payload |-> x])
              \o EncSec([name |-> sMATERIALS, n |-> Len(l.materials), B |-> Len(m), payload |-> m])
  IN EncStr(l.name) \o EncInt(Len(body)) \o body

\* the value a well-formed section of c elements leaves in its field under scale 1
RawField(name, c, kc) ==
  CASE name = sLODS -> [i \in 1..c |-> FixtureLOD(i)]
    [] name = sSKELETON ->
         <<[NewSkeleton EXCEPT !.bones = [i \in 1..c |-> RawElem("Bone", i, kc)]]>>
    [] name = sVERTICES -> [i \in 1..c |-> BigVec(3, 10 * i)]
    [] name = sINDICES -> [i \in 1..c |-> <<3 * i - 3, 3 * i - 2, 3 * i - 1>>]
    [] name = sNORMALS -> [i \in 1..c |-> Vec(3, 10 * i)]
    [] name = sTEXCOORDS -> [i \in 1..c |-> [j \in 1..i |-> Vec(2, 10 * i + 2 * j)]]
    [] TagOf(name) # "none" -> [i \in 1..c |-> RawElem(TagOf(name), i, kc)]
    [] OTHER -> <<>>

\* the payload of that section
PayloadOf(name, c, kc) ==
  LET raw == RawField(name, c, kc)
  IN CASE name = sLODS -> Concat([i \in 1..c |-> EncFixtureLOD(raw[i])])
       [] name = sSKELETON ->
            LET b == Concat([i \in 1..c |-> EncElem("Bone", raw[1].bones[i])])
            IN EncSec([name |-> sBONES, n |-> c, B |-> Len(b), payload |-> b])
       [] name = sVERTICES -> Concat([i \in 1..c |-> EncBigVec(raw[i])])
       [] name = sINDICES -> Concat([i \in 1..c |-> EncVec(raw[i])])
       [] name = sNORMALS -> Concat([i \in 1..c |-> EncInt(-1) \o EncVec(raw[i])])
       [] name = sTEXCOORDS ->
            Concat([i \in 1..c |-> EncInt(Len(raw[i]))
                                   \o Concat([j \in 1..Len(raw[i]) |-> EncVec(raw[i][j])])])
       [] name = sTANGENTS -> [j \in 1..(9 * c) |-> 100 + j]
       [] TagOf(name) # "none" -> Concat([i \in 1..c |-> EncElem(TagOf(name), raw[i])])
       [] OTHER -> [j \in 1..c |-> 200 + j]

\* the element_count a section of k elements declares
DeclN(name, k) == IF name = sINDICES THEN 3 * k ELSE IF name = sSKELETON THEN 1 ELSE k

\* a field's value with its position-like quantities multiplied by k
ScaleLOD(l, k) ==
  [l EXCEPT !.vertices = [i \in 1..Len(l.vertices) |->
                            [j \in 1..Len(l.vertices[i]) |-> BigMul(l.vertices[i][j], k)]],
            !.morphs = [i \in 1..Len(l.morphs) |-> ScaleElem("MorphTarget", l.morphs[i], k)]]

ScaleSkeleton(sk, k) ==
  [sk EXCEPT !.bones = [i \in 1..Len(sk.bones) |-> ScaleElem("Bone", sk.bones[i], k)],
             !.sockets = [i \in 1..Len(sk.sockets) |-> ScaleElem("Socket", sk.sockets[i], k)]]

ScaleResult(kind, r, k) ==
  CASE kind = "model" ->
         [lods |-> [i \in 1..Len(r.lods) |-> ScaleLOD(r.lods[i], k)],
          collisions |-> [i \in 1..Len(r.collisions) |->
                            ScaleElem("ConvexCollision", r.collisions[i], k)],
          skeleton |-> [i \in 1..Len(r.skeleton) |-> ScaleSkeleton(r.skeleton[i], k)]]
    [] kind = "anim" ->
         [r EXCEPT !.tracks = [i \in 1..Len(r.tracks) |-> ScaleElem("Track", r.tracks[i], k)]]
    [] kind = "world" ->
         [r EXCEPT !.actors = [i \in 1..Len(r.actors) |-> ScaleElem("Actor", r.actors[i], k)]]

\* the section records of a scenario's window
SecsOf(s) ==
  LET names == Window(s.focus, s.start, s.len)
  IN [i \in 1..s.len |->
        LET dn == IF s.at = i /\ s.defect = "fewer" THEN -1
                  ELSE IF s.at = i /\ s.defect = "more" THEN 1 ELSE 0
            payload == PayloadOf(names[i], s.c, s.kc)
        IN [name |-> names[i], n |-> DeclN(names[i], s.c + dn),
            B |-> IF s.at = i /\ s.defect = "back"
                  THEN 0 - (Len(EncStr(names[i])) + 8)
                  ELSE Len(payload) + (IF s.at = i /\ s.defect = "over" THEN 1 ELSE 0),
            payload |-> payload]]

\* an unregistered section record, and its insertion after the first k records
ExtraSec == [name |-> <<90, 90>>, n |-> 7, B |-> 3, payload |-> <<76, 79, 68>>]
InsertAt(secs, k) == SubSeq(secs, 1, k) \o <<ExtraSec>> \o SubSeq(secs, k + 1, Len(secs))

FocusLODName == <<76, 48>>

\* the buffer: the records, wrapped in the containers above the focus
Build(focus, secs) ==
  LET body == Concat([i \in 1..Len(secs) |-> EncSec(secs[i])])
      lod == EncStr(FocusLODName) \o EncInt(Len(body)) \o body
  IN CASE focus = "lod" -> EncSec([name |-> sLODS, n |-> 1, B |-> Len(lod), payload |-> lod])
       [] focus = "skel" ->
            EncSec([name |-> sSKELETON, n |-> 1, B |-> Len(body), payload |-> body])
       [] focus = "anim" -> EncInt(24) \o EncInt(30) \o body
       [] OTHER -> body

\* what a well-formed scenario decodes to under scale k
RECURSIVE SetFields(_, _, _, _, _)
SetFields(r, names, c, kc, i) ==
  IF i > Len(names) THEN r
  ELSE LET f == FieldOf(names[i])
       IN SetFields(IF f = "none" THEN r ELSE [r EXCEPT ![f] = RawField(names[i], c, kc)],
                    names, c, kc, i + 1)

Expected(s, k) ==
  LET names == Window(s.focus, s.start, s.len)
      new == CASE s.focus = "model" -> NewModel
               [] s.focus = "lod" -> NewLOD(FocusLODName)
               [] s.focus = "skel" -> NewSkeleton
               [] s.focus = "anim" ->
                    [num_frames |-> 24, frames_per_second |-> 30, tracks |-> <<>>,
                     curves |-> <<>>]
               [] s.focus = "world" -> NewWorld
      at == SetFields(new, names, s.c, s.kc, 1)
      top == CASE s.focus = "lod" -> [NewModel EXCEPT !.lods = <<at>>]
               [] s.focus = "skel" -> [NewModel EXCEPT !.skeleton = <<at>>]
               [] OTHER -> at
  IN ScaleResult(KindOf(s.focus), top, k)

Foci == {"model", "lod", "skel", "anim", "world"}

Scenarios ==
  { s \in [focus : Foci, start : 1..10, len : 1..MaxSecs, c : 0..MaxItems,
           defect : {"none", "fewer", "more", "over", "back"}, at : 1..MaxSecs,
           kc : {<<1, 1, 1>>}, scale : 1..MaxScale] :
      /\ s.start <= Len(Cycle(s.focus))
      /\ s.len <= Len(Cycle(s.focus))
      /\ s.at <= s.len
      /\ (s.defect = "none" => s.at = 1)
      /\ (s.defect = "over" => s.at = s.len)
      /\ (s.defect = "fewer" => s.c >= 1)
      /\ (s.defect = "back" =>
            /\ s.focus \in {"lod", "skel"}
            /\ Window(s.focus, s.start, s.len)[s.at] # sUNKNOWN) }
  \cup
  { s \in [focus : {"anim"}, start : {1}, len : {1}, c : {MaxItems}, defect : {"none"},
           at : {1}, kc : (0..MaxKeys) \X (0..MaxKeys) \X (0..MaxKeys),
           scale : 1..MaxScale] : TRUE }

(***************************************************************************)
(* The state.  One decode call at a time runs on buf with the caller's      *)
(* scale; decode 1 is the scenario's buffer, decode 2 the same buffer under *)
(* scale + 1, decode 3 (well-formed scenarios only) the buffer with one     *)
(* unregistered section record inserted after the first `ins` records.      *)
(*                                                                          *)
(*   ar, data, hdr   the top-level from_archive call: its reader, its       *)
(*                   result object and its loop's locals                    *)
(*   pending         the LODS list comprehension: calls left, LODs built    *)
(*   sub             the nested UEModelLOD / UEModelSkeleton call           *)
(*   warns           the Log.warn calls made by the decode so far           *)
(*   out             what each finished decode returned                     *)
(*                                                                          *)
(* hdr.pos of the top-level scanners, unrec and overrun are not variables   *)
(* of the program: they record where the last header ended, how many        *)
(* headers with an unregistered name were dispatched and whether a header   *)
(* declared a byte_length past its reader's bound.                          *)
(***************************************************************************)
VARIABLES sc, run, ins, buf, scale, status, ar, data, hdr, pending, sub, warns, unrec,
          overrun, out

vars == <<sc, run, ins, buf, scale, status, ar, data, hdr, pending, sub, warns, unrec,
          overrun, out>>

kind == KindOf(sc.focus)

NoSub == [kind |-> "none", ar |-> [data |-> <<>>, pos |-> 0], data |-> <<>>, hdr |-> NoHeader]
NoPending == [n |-> 0, acc |-> <<>>]
NoOut == [status |-> "none", data |-> <<>>, warns |-> 0, unrec |-> 0, overrun |-> FALSE,
          pos |-> 0]

\* the header h declares a byte_length that ends past the bound of the reader d
Overruns(h, d) == h.byte_size >= 0 /\ h.byte_size > Len(d) - h.pos

Init ==
  /\ sc \in Scenarios
  /\ run = 1
  /\ ins = 0
  /\ buf = Build(sc.focus, SecsOf(sc))
  /\ scale = sc.scale
  /\ status = "call"
  /\ ar = [data |-> <<>>, pos |-> 0]
  /\ data = <<>>
  /\ hdr = NoHeader
  /\ pending = NoPending
  /\ sub = NoSub
  /\ warns = 0
  /\ unrec = 0
  /\ overrun = FALSE
  /\ out = [i \in 1..3 |-> NoOut]

\* an exception leaves the decode call: no result is returned
Raise ==
  /\ status' = "error"
  /\ out' = [out EXCEPT ![run] = [status |-> "error", data |-> <<>>, warns |-> warns,
                                  unrec |-> unrec, overrun |-> overrun, pos |-> ar.pos]]
  /\ UNCHANGED <<sc, run, ins, buf, scale, ar, data, hdr, pending, sub, warns, unrec, overrun>>

\* `return data` of the top-level call
Return ==
  /\ status' = "done"
  /\ out' = [out EXCEPT ![run] = [status |-> "done", data |-> data, warns |-> warns,
                                  unrec |-> unrec, overrun |-> overrun, pos |-> ar.pos]]
  /\ UNCHANGED <<sc, run, ins, buf, scale, ar, data, hdr, pending, sub, warns, unrec, overrun>>

Scanning(k) ==
  status = "scan" /\ kind = k /\ sub.kind = "none" /\ pending.n = 0

\* data = cls() of UEModel.from_archive
UEModel_new ==
  /\ status = "call" /\ kind = "model"
  /\ status' = "scan"
  /\ ar' = [data |-> buf, pos |-> 0]
  /\ data' = NewModel
  /\ UNCHANGED <<sc, run, ins, buf, scale, hdr, pending, sub, warns, unrec, overrun, out>>

\* one iteration of UEModel.from_archive's loop, up to the calls it starts
UEModel_scan ==
  /\ Scanning("model") /\ ~Eof(ar)
  /\ \E h \in {ReadHeader(ar.data, ar.pos)} :
     \E r \in {UEModel_dispatch(ar.data, h.pos, data, h.v, scale)} :
        IF ~h.ok \/ ~r.ok
        THEN Raise
        ELSE /\ ar' = [ar EXCEPT !.pos = r.pos]
             /\ data' = r.data
             /\ hdr' = h.v
             /\ pending' = [n |-> r.lods, acc |-> <<>>]
             /\ sub' = IF r.chunk
                       THEN [kind |-> "skel", ar |-> r.sub, data |-> NewSkeleton,
                             hdr |-> NoHeader]
                       ELSE sub
             /\ warns' = warns + r.warn
             /\ unrec' = unrec + (IF h.v.name \in ModelNames THEN 0 ELSE 1)
             /\ overrun' = (overrun \/ Overruns(h.v, ar.data))
             /\ UNCHANGED <<sc, run, ins, buf, scale, status, out>>

UEModel_return == Scanning("model") /\ Eof(ar) /\ Return

\* UEModelLOD.from_archive up to its loop: the name, lod_size, ar.chunk(lod_size)
UEModelLOD_new ==
  /\ status = "scan" /\ kind = "model" /\ sub.kind = "none" /\ pending.n > 0
  /\ \E name \in {ReadFString(ar.data, ar.pos)} :
     \E lod_size \in {ReadInt(ar.data, name.pos)} :
     \E c \in {Chunk(ar.data, lod_size.pos, lod_size.v)} :
        IF ~(name.ok /\ lod_size.ok /\ c.ok)
        THEN Raise
        ELSE /\ ar' = [ar EXCEPT !.pos = c.pos]
             /\ sub' = [kind |-> "lod", ar |-> c.v, data |-> NewLOD(name.v), hdr |-> NoHeader]
             /\ UNCHANGED <<sc, run, ins, buf, scale, status, data, hdr, pending, warns,
                            unrec, overrun, out>>

\* one iteration of UEModelLOD.from_archive's loop, its trailing seek included
UEModelLOD_scan ==
  /\ status = "scan" /\ sub.kind = "lod" /\ ~Eof(sub.ar)
  /\ \E h \in {ReadHeader(sub.ar.data, sub.ar.pos)} :
     \E r \in {UEModelLOD_dispatch(sub.ar.data, h.pos, sub.data, h.v, scale)} :
     \E e \in {SeekEnd(h.v, r.pos)} :
        IF ~h.ok \/ ~r.ok \/ ~e.ok
        THEN Raise
        ELSE /\ sub' = [sub EXCEPT !.ar.pos = e.pos, !.data = r.data, !.hdr = h.v]
             /\ warns' = warns + r.warn
             /\ unrec' = unrec + (IF h.v.name \in LODNames THEN 0 ELSE 1)
             /\ overrun' = (overrun \/ Overruns(h.v, sub.ar.data))
             /\ UNCHANGED <<sc, run, ins, buf, scale, status, ar, data, hdr, pending, out>>

\* `return data` of UEModelLOD.from_archive; the last LOD of the comprehension
\* assigns data.lods
UEModelLOD_return ==
  /\ status = "scan" /\ sub.kind = "lod" /\ Eof(sub.ar)
  /\ \E acc \in {Append(pending.acc, sub.data)} :
        /\ pending' = IF pending.n = 1 THEN NoPending ELSE [n |-> pending.n - 1, acc |-> acc]
        /\ data' = IF pending.n = 1 THEN [data EXCEPT !.lods = acc] ELSE data
  /\ sub' = NoSub
  /\ UNCHANGED <<sc, run, ins, buf, scale, status, ar, hdr, warns, unrec, overrun, out>>

\* one iteration of UEModelSkeleton.from_archive's loop, its trailing seek included
UEModelSkeleton_scan ==
  /\ status = "scan" /\ sub.kind = "skel" /\ ~Eof(sub.ar)
  /\ \E h \in {ReadHeader(sub.ar.data, sub.ar.pos)} :
     \E r \in {UEModelSkeleton_dispatch(sub.ar.data, h.pos, sub.data, h.v, scale)} :
     \E e \in {SeekEnd(h.v, r.pos)} :
        IF ~h.ok \/ ~r.ok \/ ~e.ok
        THEN Raise
        ELSE /\ sub' = [sub EXCEPT !.ar.pos = e.pos, !.data = r.data, !.hdr = h.v]
             /\ warns' = warns + r.warn
             /\ unrec' = unrec + (IF h.v.name \in SkeletonNames THEN 0 ELSE 1)
             /\ overrun' = (overrun \/ Overruns(h.v, sub.ar.data))
             /\ UNCHANGED <<sc, run, ins, buf, scale, status, ar, data, hdr, pending, out>>

\* `return data` of UEModelSkeleton.from_archive, assigned to data.skeleton
UEModelSkeleton_return ==
  /\ status = "scan" /\ sub.kind = "skel" /\ Eof(sub.ar)
  /\ data' = [data EXCEPT !.skeleton = <<sub.data>>]
  /\ sub' = NoSub
  /\ UNCHANGED <<sc, run, ins, buf, scale, status, ar, hdr, pending, warns, unrec, overrun,
                 out>>

\* data = cls(num_frames=ar.read_int(), frames_per_second=ar.read_float())
UEAnim_new ==
  /\ status = "call" /\ kind = "anim"
  /\ \E num_frames \in {ReadInt(buf, 0)} :
     \E frames_per_second \in {ReadFloat(buf, num_frames.pos)} :
        IF ~(num_frames.ok /\ frames_per_second.ok)
        THEN Raise
        ELSE /\ status' = "scan"
             /\ ar' = [data |-> buf, pos |-> frames_per_second.pos]
             /\ data' = [num_frames |-> num_frames.v,
                         frames_per_second |-> frames_per_second.v,
                         tracks |-> <<>>, curves |-> <<>>]
             /\ UNCHANGED <<sc, run, ins, buf, scale, hdr, pending, sub, warns, unrec,
                            overrun, out>>

\* one iteration of the loop of UEAnim.from_archive (k = "anim") or of
\* UEWorld.from_archive (k = "world")
TopScan(k, names, h, r) ==
  /\ Scanning(k) /\ ~Eof(ar)
  /\ IF ~h.ok \/ ~r.ok
     THEN Raise
     ELSE /\ ar' = [ar EXCEPT !.pos = r.pos]
          /\ data' = r.data
          /\ hdr' = h.v
          /\ warns' = warns + r.warn
          /\ unrec' = unrec + (IF h.v.name \in names THEN 0 ELSE 1)
          /\ overrun' = (overrun \/ Overruns(h.v, ar.data))
          /\ UNCHANGED <<sc, run, ins, buf, scale, status, pending, sub, out>>

UEAnim_scan ==
  \E h \in {ReadHeader(ar.data, ar.pos)} :
     TopScan("anim", AnimNames, h, UEAnim_dispatch(ar.data, h.pos, data, h.v, scale))

UEAnim_return == Scanning("anim") /\ Eof(ar) /\ Return

\* data = cls() of UEWorld.from_archive
UEWorld_new ==
  /\ status = "call" /\ kind = "world"
  /\ status' = "scan"
  /\ ar' = [data |-> buf, pos |-> 0]
  /\ data' = NewWorld
  /\ UNCHANGED <<sc, run, ins, buf, scale, hdr, pending, sub, warns, unrec, overrun, out>>

UEWorld_scan ==
  \E h \in {ReadHeader(ar.data, ar.pos)} :
     TopScan("world", WorldNames, h, UEWorld_dispatch(ar.data, h.pos, data, h.v, scale))

UEWorld_return == Scanning("world") /\ Eof(ar) /\ Return

\* the caller's next decode call
Fresh(b, s, i) ==
  /\ run' = run + 1
  /\ ins' = i
  /\ buf' = b
  /\ scale' = s
  /\ status' = "call"
  /\ ar' = [data |-> <<>>, pos |-> 0]
  /\ data' = <<>>
  /\ hdr' = NoHeader
  /\ pending' = NoPending
  /\ sub' = NoSub
  /\ warns' = 0
  /\ unrec' = 0
  /\ overrun' = FALSE
  /\ UNCHANGED <<sc, out>>

\* decode 2: the same buffer, another scale
Rescale ==
  /\ run = 1 /\ status \in {"done", "error"}
  /\ Fresh(buf, sc.scale + 1, 0)

\* decode 3: the buffer with an unregistered section record inserted
Insert ==
  /\ run = 2 /\ status \in {"done", "error"} /\ sc.defect = "none"
  /\ \E i \in 0..sc.len : Fresh(Build(sc.focus, InsertAt(SecsOf(sc), i)), sc.scale, i)

Next ==
  \/ UEModel_new \/ UEModel_scan \/ UEModel_return
  \/ UEModelLOD_new \/ UEModelLOD_scan \/ UEModelLOD_return
  \/ UEModelSkeleton_scan \/ UEModelSkeleton_return
  \/ UEAnim_new \/ UEAnim_scan \/ UEAnim_return
  \/ UEWorld_new \/ UEWorld_scan \/ UEWorld_return
  \/ Rescale \/ Insert

Spec == Init /\ [][Next]_vars

\* well-formed scenarios decode to what was encoded
RoundTrip ==
  \A i \in 1..3 : (out[i].status # "none" /\ sc.defect = "none") =>
     /\ out[i].status = "done"
     /\ out[i].data = Expected(sc, IF i = 2 THEN sc.scale + 1 ELSE sc.scale)

(***************************************************************************)
(* Properties.                                                              *)
(***************************************************************************)
NamesOf(k) ==
  CASE k = "model" -> ModelNames
    [] k = "lod" -> LODNames
    [] k = "skel" -> SkeletonNames
    [] k = "anim" -> AnimNames
    [] k = "world" -> WorldNames
    [] OTHER -> {}

\* the top-level scanner is about to test eof() and read the next header, after
\* at least one section
AtHead == status = "scan" /\ sub.kind = "none" /\ pending.n = 0 /\ hdr.pos >= 0

\* the nested LOD or Skeleton scanner is, likewise
SubAtHead == status = "scan" /\ sub.kind # "none" /\ sub.hdr.pos >= 0

\* the header h of a section that lies inside the reader d
Inside(h, d) == h.byte_size >= 0 /\ ~Overruns(h, d)

\* the scenario's window of section names
Names == Window(sc.focus, sc.start, sc.len)

\* C1: in every container scanner (Model, LOD, Skeleton, Animation, World), after
\* a section with declared byte_length B >= 0 lying inside the reader, the cursor
\* is at record_start + B when the next header is read, whatever the matched
\* parser consumed.
C1_EveryScannerResyncs ==
  /\ (AtHead /\ Inside(hdr, ar.data)) => ar.pos = hdr.pos + hdr.byte_size
  /\ (SubAtHead /\ Inside(sub.hdr, sub.ar.data)) =>
       sub.ar.pos = sub.hdr.pos + sub.hdr.byte_size

\* C2: at any scanner level, the dispatch of a section whose name the container
\* does not register, with byte_length B >= 0, leaves the cursor at
\* record_start + B and interprets no payload byte: the result object and the
\* nested calls are as they were before the header.
C2_UnknownSectionSkipped ==
  [][/\ (hdr' # hdr /\ hdr'.pos >= 0 /\ hdr'.name \notin NamesOf(kind)
           /\ hdr'.byte_size >= 0)
          => /\ ar'.pos = hdr'.pos + hdr'.byte_size
             /\ data' = data /\ pending' = pending /\ sub' = sub
     /\ (sub'.hdr # sub.hdr /\ sub'.hdr.pos >= 0 /\ sub'.hdr.name \notin NamesOf(sub'.kind)
           /\ sub'.hdr.byte_size >= 0)
          => /\ sub'.ar.pos = sub'.hdr.pos + sub'.hdr.byte_size
             /\ sub'.data = sub.data
             /\ data' = data /\ ar' = ar]_vars

\* an Animation-level unregistered section of two payload bytes has been skipped
C2_Witness ==
  /\ kind = "anim" /\ AtHead /\ run = 1
  /\ hdr.name = sUNKNOWN /\ hdr.byte_size = 2 /\ ar.pos = hdr.pos + 2

\* C3: for a well-formed buffer, the decode of the buffer with an unregistered
\* section record inserted between (before, after) the section records of a
\* scanner level returns the same Model / Animation / World as the decode of the
\* buffer itself.
C3_UnknownSectionTransparent ==
  out[3].status # "none" =>
    /\ out[1].status = "done"
    /\ out[3].status = "done"
    /\ out[3].data = out[1].data

\* the record was inserted between two records of a LOD, and skipped
C3_Witness ==
  /\ out[3].status = "done" /\ sc.focus = "lod" /\ sc.len = 2 /\ ins = 1 /\ sc.c = 2
  /\ out[3].unrec = out[1].unrec + 1
  /\ out[3].data.lods[1].vertices # <<>>

\* C4: during a decode, Log.warn is called once per section with an unregistered
\* name, at every scanner level, and never for a registered one: the number of
\* calls equals the number of unregistered sections scanned.
C4_WarnPerUnknownSection == warns = unrec

\* C5: a decode in which a section declared a byte_length ending past the bound
\* of the reader being scanned does not return a result.
C5_OverrunIsFatal == \A i \in 1..3 : out[i].overrun => out[i].status # "done"

\* the offset at which the j-th HashedMesh record of a MESHES payload at p starts
RECURSIVE MeshStart(_, _, _)
MeshStart(meshes, p, j) ==
  IF j <= 1 THEN p ELSE MeshStart(meshes, p, j - 1) + 8 + meshes[j - 1].model_size

\* C6: after a MESHES section of element_count N the World holds N HashedMesh
\* entries in stream order, each with the hash and model_size read and a reader
\* over exactly the next model_size bytes at offset 0, and the cursor is past the
\* last of them; no Model, LOD or Skeleton decode runs during a World decode and
\* the sections inside a sub-archive reach neither the result nor the log; a
\* World of one mesh of hash H among its meshes and two Actors of model_hash H
\* has exactly one HashedMesh of hash H.
C6_MeshesDeferred ==
  /\ kind = "world" => sub = NoSub /\ pending = NoPending
  /\ (kind = "world" /\ AtHead /\ hdr.name = sMESHES) =>
       /\ Len(data.meshes) = Max(hdr.array_size, 0)
       /\ ar.pos = MeshStart(data.meshes, hdr.pos, Len(data.meshes) + 1)
       /\ \A j \in 1..Len(data.meshes) :
            LET m == data.meshes[j]
                q == MeshStart(data.meshes, hdr.pos, j)
            IN /\ m.model_size >= 0
               /\ InBounds(ar.data, q, 8 + m.model_size)
               /\ m.hash = LE32(ar.data, q)
               /\ m.model_size = LE32(ar.data, q + 4)
               /\ m.model_reader =
                    [data |-> SubSeq(ar.data, q + 9, q + 8 + m.model_size), pos |-> 0]
  /\ \A i \in 1..3 :
       (out[i].status # "none" /\ sc.focus = "world" /\ sc.defect = "none") =>
          /\ out[i].status = "done"
          /\ out[i].warns = Cardinality({j \in 1..sc.len : Names[j] = sUNKNOWN})
                            + (IF i = 3 THEN 1 ELSE 0)
          /\ (sMESHES \in {Names[j] : j \in 1..sc.len}) =>
                /\ Len(out[i].data.meshes) = sc.c
                /\ \A j \in 1..sc.c : out[i].data.meshes[j].model_reader.data = MeshBytes
          /\ (Len(out[i].data.actors) >= 2 /\ Len(out[i].data.meshes) >= 1) =>
                /\ out[i].data.actors[1].model_hash = out[i].data.actors[2].model_hash
                /\ Cardinality({j \in 1..Len(out[i].data.meshes) :
                                  out[i].data.meshes[j].hash
                                    = out[i].data.actors[1].model_hash}) = 1

\* a World of two meshes and two Actors sharing the first mesh's hash
C6_Witness ==
  /\ out[1].status = "done" /\ sc.focus = "world"
  /\ Len(out[1].data.meshes) = 2 /\ Len(out[1].data.actors) = 2
  /\ out[1].data.meshes[2].model_reader.data = MeshBytes
  /\ out[1].data.actors[2].model_hash = out[1].data.meshes[1].hash

\* C7: two decodes of one buffer under scales s and s + 1 differ only in the
\* position-like fields (LOD vertices, collision-hull vertices, Bone and Socket
\* positions, MorphTarget delta positions, Track position keys, Actor locations),
\* whose components are in the ratio s : s + 1, and agree in every other field;
\* on a well-formed buffer each such component is the raw value times the scale.
C7_ScaleOnPositions ==
  /\ (out[1].status # "none" /\ out[2].status # "none") =>
        out[1].status = out[2].status
  /\ (out[1].status = "done" /\ out[2].status = "done") =>
        ScaleResult(kind, out[1].data, sc.scale + 1)
          = ScaleResult(kind, out[2].data, sc.scale)
  /\ \A i \in 1..2 :
       (out[i].status = "done" /\ sc.defect = "none") =>
          out[i].data = ScaleResult(kind, Expected(sc, 1),
                                    IF i = 2 THEN sc.scale + 1 ELSE sc.scale)

\* a World with an Actor has been decoded under both scales
C7_Witness ==
  /\ out[1].status = "done" /\ out[2].status = "done" /\ sc.focus = "world"
  /\ Len(out[1].data.actors) = 2
  /\ out[1].data.actors[1].location # out[2].data.actors[1].location
  /\ out[1].data.actors[1].scale = out[2].data.actors[1].scale

\* C8: a Track of key counts (p, r, s), each count its own 32-bit prefix, in a
\* TRACKS section of any element_count, decodes to p position keys, r rotation
\* keys and s scale keys with the values in stream order, and the cursor ends
\* after the last scale key of the last Track.
C8_TrackKeyLists ==
  (out[1].status # "none" /\ sc.focus = "anim" /\ sc.defect = "none" /\ sc.start = 1
     /\ sc.len = 1) =>
    /\ out[1].status = "done"
    /\ out[1].pos = Len(Build(sc.focus, SecsOf(sc)))
    /\ Len(out[1].data.tracks) = sc.c
    /\ \A t \in 1..sc.c :
         LET track == out[1].data.tracks[t]
         IN /\ Len(track.position_keys) = sc.kc[1]
            /\ Len(track.rotation_keys) = sc.kc[2]
            /\ Len(track.scale_keys) = sc.kc[3]
            /\ \A j \in 1..sc.kc[1] :
                 track.position_keys[j]
                   = ScaleElem("Track", RawElem("Track", t, sc.kc), sc.scale).position_keys[j]
            /\ \A j \in 1..sc.kc[2] :
                 track.rotation_keys[j] = RawElem("QuatKey", j + t, sc.kc)
            /\ \A j \in 1..sc.kc[3] :
                 track.scale_keys[j] = RawElem("ScaleKey", j + t, sc.kc)

\* Tracks with no position key, two rotation keys and one scale key
C8_Witness ==
  /\ out[1].status = "done" /\ sc.focus = "anim" /\ sc.kc = <<0, 2, 1>>
  /\ Len(out[1].data.tracks) = 2
  /\ out[1].data.tracks[2].position_keys = <<>>
  /\ Len(out[1].data.tracks[2].rotation_keys) = 2

\* the fields of a result object that a step changes
Changed(old, new) == {f \in DOMAIN old : new[f] # old[f]}

\* C9: a section dispatch (and the return of the nested call it starts) changes
\* no field of the result object but the one bound to the section's name, so a
\* field whose section is absent keeps its default; a Model buffer of one LODS
\* section with k LODs and nothing else decodes to k LODs in stream order,
\* skeleton None and no collisions, and a LOD whose INDICES section holds 0, 1, 2
\* has indices [[0, 1, 2]].
C9_DispatchFrame ==
  /\ [][/\ (status = "scan" /\ status' = "scan" /\ run' = run) =>
              Changed(data, data') \subseteq {FieldOf(hdr'.name)}
        /\ (status = "scan" /\ status' = "scan" /\ sub.kind # "none"
              /\ sub'.kind = sub.kind) =>
              Changed(sub.data, sub'.data) \subseteq {FieldOf(sub'.hdr.name)}]_vars
  /\ [](\A i \in 1..3 :
          (out[i].status # "none" /\ sc.focus = "model" /\ sc.defect = "none"
             /\ Names = <<sLODS>>) =>
            /\ out[i].status = "done"
            /\ Len(out[i].data.lods) = sc.c
            /\ \A j \in 1..sc.c :
                 /\ out[i].data.lods[j].name = FixtureLOD(j).name
                 /\ out[i].data.lods[j].indices = <<<<0, 1, 2>>>>
                 /\ Len(out[i].data.lods[j].vertices) = 3
                 /\ Len(out[i].data.lods[j].materials) = 1
                 /\ out[i].data.lods[j].weights = <<>>
            /\ out[i].data.skeleton = <<>>
            /\ out[i].data.collisions = <<>>)

\* a Model of two LODs and nothing else
C9_Witness ==
  /\ out[1].status = "done" /\ sc.focus = "model" /\ Names = <<sLODS>>
  /\ Len(out[1].data.lods) = 2
  /\ out[1].data.lods[2].indices = <<<<0, 1, 2>>>>
  /\ out[1].data.skeleton = <<>>

\* the scenario's LOD holds a TANGENTS section whose element_count is not the
\* one its payload and byte_length are for
TangentsMiscounted ==
  /\ sc.focus = "lod" /\ sc.defect \in {"fewer", "more"}
  /\ Names[sc.at] = sTANGENTS

\* C10: in a LOD and in a Skeleton, after every section the cursor is at
\* pos + byte_size when the next header is read; a TANGENTS section of any
\* element_count stores nothing, and the sections after it decode as they do
\* when its element_count matches its byte_size.
C10_NestedScannersResync ==
  /\ SubAtHead => sub.ar.pos = sub.hdr.pos + sub.hdr.byte_size
  /\ sub.kind = "lod" => sub.data.tangents = <<>>
  /\ \A i \in 1..2 :
       (out[i].status # "none" /\ TangentsMiscounted) =>
          /\ out[i].status = "done"
          /\ out[i].data = Expected(sc, IF i = 2 THEN sc.scale + 1 ELSE sc.scale)

\* a TANGENTS section declaring one element more than its 18 bytes hold was
\* followed by an unregistered section and both were passed
C10_Witness ==
  /\ out[1].status = "done" /\ TangentsMiscounted /\ sc.defect = "more" /\ sc.c = 2
  /\ sc.len = 2 /\ sc.at = 1
  /\ out[1].unrec = 1

\* C11: every iteration of a scanner loop that does not raise leaves the cursor
\* strictly beyond the offset at which the iteration's header began, whatever
\* the element_count and byte_length the header holds, so the cursor never
\* moves backwards from one header to the next and the loop ends.
C11_IterationAdvances ==
  [][/\ (hdr' # hdr /\ hdr'.pos >= 0) => ar'.pos > ar.pos
     /\ (sub'.hdr # sub.hdr /\ sub'.hdr.pos >= 0) => sub'.ar.pos > sub.ar.pos]_vars

=============================================================================
